---- MODULE Spec2Model ----
(***************************************************************************)
(* Model of SignLanguageApp (src/Asl.py): the per-frame classification     *)
(* (top-3 peel, rule-based refiner, letter resolver, control-token         *)
(* overrides) and the token-stream assembler with its UI operations.       *)
(*                                                                         *)
(* Representation.  A landmark frame pts is a function 0..20 -> <<x, y>>,  *)
(* so the source's pts[i][0] is pts[i][1] here and pts[i][1] is pts[i][2]. *)
(* Python strings that the program indexes or concatenates (self.str, the  *)
(* suggestion slots) are sequences of one-character strings; symbols are   *)
(* TLA+ strings.  The integer 1 that the resolver can leave in ch1 is the  *)
(* token IntOne, the only symbol that is not a Python str.                 *)
(***************************************************************************)
EXTENDS Integers, Sequences, FiniteSets, TLC

VARIABLES
    str,              \* self.str, the assembled text
    prev_char,        \* self.prev_char
    ten_prev_char,    \* self.ten_prev_char, 10 slots indexed 0..9
    count,            \* self.count
    current_symbol,   \* self.current_symbol
    word1, word2, word3, word4,   \* the four suggestion slots
    op,               \* history: the handler that ran last and how it ended
    resolved,         \* history: the symbol predict resolved for the last frame
    old_str,          \* history: self.str before the last handler ran
    emitted,          \* history: the symbols predict stored, oldest first
    model_loaded,     \* the global model is not None
    last_in,          \* history: the camera frame update_frame handled last
    seen,             \* history: per frame, the symbols predict resolved for it
    failed,           \* history: how the last failed frame failed, or "none"
    fn_in,            \* argument of the pure function under study
    fn_out,           \* its result, <<>> before it is applied
    speech            \* the speech workers and the pygame music channel

vars == <<str, prev_char, ten_prev_char, count, current_symbol,
          word1, word2, word3, word4, op, resolved, old_str, emitted,
          model_loaded, last_in, seen, failed, fn_in, fn_out, speech>>

----------------------------------------------------------------------------
(* Symbols *)

SPACE == " "
NEXT == "next"
BACKSPACE == "Backspace"
IntOne == "int:1"

Letters == {"A", "B", "C", "D", "E", "F", "G", "H", "I", "J", "K", "L", "M",
            "N", "O", "P", "Q", "R", "S", "T", "U", "V", "W", "X", "Y", "Z"}

\* isinstance(s, str): what str + s needs in order not to raise TypeError
IsStr(s) == s # IntOne

\* The characters of a symbol, as str + symbol appends them.
Chars(s) ==
    CASE s = NEXT -> <<"n", "e", "x", "t">>
      [] s = BACKSPACE -> <<"B", "a", "c", "k", "s", "p", "a", "c", "e">>
      [] s = "  " -> <<" ", " ">>
      [] s = "" -> <<>>
      [] OTHER -> <<s>>

----------------------------------------------------------------------------
(* Geometry helpers *)

\* distance(x, y) squared; the landmarks are integers, so distance(a, b) > c
\* is Dist2(a, b) > c * c and distance(a, b) < c is Dist2(a, b) < c * c.
Dist2(a, b) == (a[1] - b[1]) * (a[1] - b[1]) + (a[2] - b[2]) * (a[2] - b[2])

\* sqrt(A) - sqrt(B) < 8 over the integers: A - B - 64 < 16 * sqrt(B), that is
\* A - B - 64 < 0 or (A - B - 64)^2 < 256 * B.  The square is taken only
\* below 46341, where it fits 32 bits; above, it exceeds every 256 * B.
DistDiffLess8(A, B) ==
    \/ A - B - 64 < 0
    \/ /\ A - B - 64 < 46341
       /\ (A - B - 64) * (A - B - 64) < 256 * B

----------------------------------------------------------------------------
(* Top-3 peel, lines 434-440 *)

\* a slip of ArgMax: the last index holding the maximum
ArgMaxLast(prob) ==
    CHOOSE i \in DOMAIN prob :
        /\ \A j \in DOMAIN prob : prob[j] <= prob[i]
        /\ \A j \in DOMAIN prob : j > i => prob[j] < prob[i]

\* np.argmax: the first index holding the maximum
ArgMax(prob) ==
    CHOOSE i \in DOMAIN prob :
        /\ \A j \in DOMAIN prob : prob[j] <= prob[i]
        /\ \A j \in DOMAIN prob : j < i => prob[j] < prob[i]

\* a slip of Peel: the chosen entries are not zeroed
PeelNoZero(prob) == <<ArgMax(prob), ArgMax(prob), ArgMax(prob)>>

\* lines 434-440: ch1, ch2, ch3
Peel(prob) ==
    LET c1 == ArgMax(prob)
        p1 == [prob EXCEPT ![c1] = 0]
        c2 == ArgMax(p1)
        p2 == [p1 EXCEPT ![c2] = 0]
        c3 == ArgMax(p2)
    IN  <<c1, c2, c3>>

----------------------------------------------------------------------------
(* Rule-based refiner, lines 442-708.  Each rule reads the pair pl and the *)
(* landmarks and overwrites ch1 when it fires.                             *)

\* lines 446-452  # Condition for [Aemnst]
Rule01(pl, ch1, pts) ==
    IF pl \in {<<5, 2>>, <<5, 3>>, <<3, 5>>, <<3, 6>>, <<3, 0>>, <<3, 2>>, <<6, 4>>, <<6, 1>>, <<6, 2>>, <<6, 6>>, <<6, 7>>, <<6, 0>>, <<6, 5>>, <<4, 1>>, <<1, 0>>, <<1, 1>>, <<6, 3>>, <<1, 6>>, <<5, 6>>, <<5, 1>>, <<4, 5>>, <<1, 4>>, <<1, 5>>, <<2, 0>>, <<2, 6>>, <<4, 6>>, <<5, 7>>, <<7, 6>>, <<2, 5>>, <<7, 1>>, <<5, 4>>, <<7, 0>>, <<7, 5>>, <<7, 2>>}
       /\ (pts[6][2] < pts[8][2] /\ pts[10][2] < pts[12][2] /\ pts[14][2] < pts[16][2] /\ pts[18][2] < pts[20][2])
    THEN 0 ELSE ch1

\* lines 455-458  # Condition for [o][s]
Rule02(pl, ch1, pts) ==
    IF pl \in {<<2, 2>>, <<2, 1>>}
       /\ pts[5][1] < pts[4][1]
    THEN 0 ELSE ch1

\* lines 461-466  # Condition for [c0][aemnst]
Rule03(pl, ch1, pts) ==
    IF pl \in {<<0, 0>>, <<0, 6>>, <<0, 2>>, <<0, 5>>, <<0, 1>>, <<0, 7>>, <<5, 2>>, <<7, 6>>, <<7, 1>>}
       /\ ((pts[0][1] > pts[8][1] /\ pts[0][1] > pts[4][1] /\ pts[0][1] > pts[12][1] /\ pts[0][1] > pts[16][1] /\ pts[0][1] > pts[20][1]) /\ pts[5][1] > pts[4][1])
    THEN 2 ELSE ch1

\* lines 469-473  # Condition for [c0][aemnst]
Rule04(pl, ch1, pts) ==
    IF pl \in {<<6, 0>>, <<6, 6>>, <<6, 2>>}
       /\ Dist2(pts[8], pts[16]) < 52 * 52
    THEN 2 ELSE ch1

\* lines 476-482  # Condition for [gh][bdfikruvw]
Rule05(pl, ch1, pts) ==
    IF pl \in {<<1, 4>>, <<1, 5>>, <<1, 6>>, <<1, 3>>, <<1, 0>>}
       /\ (pts[6][2] > pts[8][2] /\ pts[14][2] < pts[16][2] /\ pts[18][2] < pts[20][2] /\ pts[0][1] < pts[8][1] /\ pts[0][1] < pts[12][1] /\ pts[0][1] < pts[16][1] /\ pts[0][1] < pts[20][1])
    THEN 3 ELSE ch1

\* lines 485-489  # Con for [gh][l]
Rule06(pl, ch1, pts) ==
    IF pl \in {<<4, 6>>, <<4, 1>>, <<4, 5>>, <<4, 3>>, <<4, 7>>}
       /\ pts[4][1] > pts[0][1]
    THEN 3 ELSE ch1

\* lines 492-496  # Con for [gh][pqz]
Rule07(pl, ch1, pts) ==
    IF pl \in {<<5, 3>>, <<5, 0>>, <<5, 7>>, <<5, 4>>, <<5, 2>>, <<5, 1>>, <<5, 5>>}
       /\ pts[2][2] + 15 < pts[16][2]
    THEN 3 ELSE ch1

\* lines 499-503  # Con for [l][x]
Rule08(pl, ch1, pts) ==
    IF pl \in {<<6, 4>>, <<6, 1>>, <<6, 2>>}
       /\ Dist2(pts[4], pts[11]) > 55 * 55
    THEN 4 ELSE ch1

\* lines 506-512  # Con for [l][d]
Rule09(pl, ch1, pts) ==
    IF pl \in {<<1, 4>>, <<1, 6>>, <<1, 1>>}
       /\ (Dist2(pts[4], pts[11]) > 50 * 50 /\ (pts[6][2] > pts[8][2] /\ pts[10][2] < pts[12][2] /\ pts[14][2] < pts[16][2] /\ pts[18][2] < pts[20][2]))
    THEN 4 ELSE ch1

\* lines 515-519  # Con for [l][gh]
Rule10(pl, ch1, pts) ==
    IF pl \in {<<3, 6>>, <<3, 4>>}
       /\ pts[4][1] < pts[0][1]
    THEN 4 ELSE ch1

\* lines 522-526  # Con for [l][c0]
Rule11(pl, ch1, pts) ==
    IF pl \in {<<2, 2>>, <<2, 5>>, <<2, 4>>}
       /\ pts[1][1] < pts[12][1]
    THEN 4 ELSE ch1

\* lines 529-534  # Con for [gh][z]
Rule12(pl, ch1, pts) ==
    IF pl \in {<<3, 6>>, <<3, 5>>, <<3, 4>>}
       /\ ((pts[6][2] > pts[8][2] /\ pts[10][2] < pts[12][2] /\ pts[14][2] < pts[16][2] /\ pts[18][2] < pts[20][2]) /\ pts[4][2] > pts[10][2])
    THEN 5 ELSE ch1

\* lines 537-542  # Con for [gh][pq]
Rule13(pl, ch1, pts) ==
    IF pl \in {<<3, 2>>, <<3, 1>>, <<3, 6>>}
       /\ (pts[4][2] + 17 > pts[8][2] /\ pts[4][2] + 17 > pts[12][2] /\ pts[4][2] + 17 > pts[16][2] /\ pts[4][2] + 17 > pts[20][2])
    THEN 5 ELSE ch1

\* lines 545-549  # Con for [l][pqz]
Rule14(pl, ch1, pts) ==
    IF pl \in {<<4, 4>>, <<4, 5>>, <<4, 2>>, <<7, 5>>, <<7, 6>>, <<7, 0>>}
       /\ pts[4][1] > pts[0][1]
    THEN 5 ELSE ch1

\* lines 552-556  # Con for [pqz][aemnst]
Rule15(pl, ch1, pts) ==
    IF pl \in {<<0, 2>>, <<0, 6>>, <<0, 1>>, <<0, 5>>, <<0, 0>>, <<0, 7>>, <<0, 4>>, <<0, 3>>, <<2, 7>>}
       /\ (pts[0][1] < pts[8][1] /\ pts[0][1] < pts[12][1] /\ pts[0][1] < pts[16][1] /\ pts[0][1] < pts[20][1])
    THEN 5 ELSE ch1

\* lines 559-563  # Con for [pqz][yj]
Rule16(pl, ch1, pts) ==
    IF pl \in {<<5, 7>>, <<5, 2>>, <<5, 6>>}
       /\ pts[3][1] < pts[0][1]
    THEN 7 ELSE ch1

\* lines 566-570  # Con for [l][yj]
Rule17(pl, ch1, pts) ==
    IF pl \in {<<4, 6>>, <<4, 2>>, <<4, 4>>, <<4, 1>>, <<4, 5>>, <<4, 7>>}
       /\ pts[6][2] < pts[8][2]
    THEN 7 ELSE ch1

\* lines 573-577  # Con for [x][yj]
Rule18(pl, ch1, pts) ==
    IF pl \in {<<6, 7>>, <<0, 7>>, <<0, 1>>, <<0, 0>>, <<6, 4>>, <<6, 6>>, <<6, 5>>, <<6, 1>>}
       /\ pts[18][2] > pts[20][2]
    THEN 7 ELSE ch1

\* lines 580-584  # Condition for [x][aemnst]
Rule19(pl, ch1, pts) ==
    IF pl \in {<<0, 4>>, <<0, 2>>, <<0, 3>>, <<0, 1>>, <<0, 6>>}
       /\ pts[5][1] > pts[16][1]
    THEN 6 ELSE ch1

\* lines 587-591  # Condition for [yj][x]
Rule20(pl, ch1, pts) ==
    IF pl \in {<<7, 2>>}
       /\ (pts[18][2] < pts[20][2] /\ pts[8][2] < pts[10][2])
    THEN 6 ELSE ch1

\* lines 594-598  # Condition for [c0][x]
Rule21(pl, ch1, pts) ==
    IF pl \in {<<2, 1>>, <<2, 2>>, <<2, 6>>, <<2, 7>>, <<2, 0>>}
       /\ Dist2(pts[8], pts[16]) > 50 * 50
    THEN 6 ELSE ch1

\* lines 601-605  # Con for [l][x]
Rule22(pl, ch1, pts) ==
    IF pl \in {<<4, 6>>, <<4, 2>>, <<4, 1>>, <<4, 4>>}
       /\ Dist2(pts[4], pts[11]) < 60 * 60
    THEN 6 ELSE ch1

\* lines 608-612  # Con for [x][d]
Rule23(pl, ch1, pts) ==
    IF pl \in {<<1, 4>>, <<1, 6>>, <<1, 0>>, <<1, 2>>}
       /\ pts[5][1] - pts[4][1] - 15 > 0
    THEN 6 ELSE ch1

\* lines 615-621  # Con for [b][pqz]
Rule24(pl, ch1, pts) ==
    IF pl \in {<<5, 0>>, <<5, 1>>, <<5, 4>>, <<5, 5>>, <<5, 6>>, <<6, 1>>, <<7, 6>>, <<0, 2>>, <<7, 1>>, <<7, 4>>, <<6, 6>>, <<7, 2>>, <<6, 3>>, <<6, 4>>, <<7, 5>>}
       /\ (pts[6][2] > pts[8][2] /\ pts[10][2] > pts[12][2] /\ pts[14][2] > pts[16][2] /\ pts[18][2] > pts[20][2])
    THEN 1 ELSE ch1

\* lines 624-630  # Con for [f][pqz]
Rule25(pl, ch1, pts) ==
    IF pl \in {<<6, 1>>, <<6, 0>>, <<0, 3>>, <<6, 4>>, <<2, 2>>, <<0, 6>>, <<6, 2>>, <<7, 6>>, <<4, 6>>, <<4, 1>>, <<4, 2>>, <<0, 2>>, <<7, 1>>, <<7, 4>>, <<6, 6>>, <<7, 2>>, <<7, 5>>}
       /\ (pts[6][2] < pts[8][2] /\ pts[10][2] > pts[12][2] /\ pts[14][2] > pts[16][2] /\ pts[18][2] > pts[20][2])
    THEN 1 ELSE ch1

\* lines 632-636  
Rule26(pl, ch1, pts) ==
    IF pl \in {<<6, 1>>, <<6, 0>>, <<4, 2>>, <<4, 1>>, <<4, 6>>, <<4, 4>>}
       /\ (pts[10][2] > pts[12][2] /\ pts[14][2] > pts[16][2] /\ pts[18][2] > pts[20][2])
    THEN 1 ELSE ch1

\* lines 639-644  # Con for [d][pqz]
Rule27(pl, ch1, pts) ==
    IF pl \in {<<5, 0>>, <<3, 4>>, <<3, 0>>, <<3, 1>>, <<3, 5>>, <<5, 5>>, <<5, 4>>, <<5, 1>>, <<7, 6>>}
       /\ ((pts[6][2] > pts[8][2] /\ pts[10][2] < pts[12][2] /\ pts[14][2] < pts[16][2] /\ pts[18][2] < pts[20][2]) /\ pts[2][1] < pts[0][1] /\ pts[4][2] > pts[14][2])
    THEN 1 ELSE ch1

\* lines 646-652  
Rule28(pl, ch1, pts) ==
    IF pl \in {<<4, 1>>, <<4, 2>>, <<4, 4>>}
       /\ (Dist2(pts[4], pts[11]) < 50 * 50 /\ (pts[6][2] > pts[8][2] /\ pts[10][2] < pts[12][2] /\ pts[14][2] < pts[16][2] /\ pts[18][2] < pts[20][2]))
    THEN 1 ELSE ch1

\* lines 654-659  
Rule29(pl, ch1, pts) ==
    IF pl \in {<<3, 4>>, <<3, 0>>, <<3, 1>>, <<3, 5>>, <<3, 6>>}
       /\ ((pts[6][2] > pts[8][2] /\ pts[10][2] < pts[12][2] /\ pts[14][2] < pts[16][2] /\ pts[18][2] < pts[20][2]) /\ pts[2][1] < pts[0][1] /\ pts[14][2] < pts[4][2])
    THEN 1 ELSE ch1

\* lines 661-665  
Rule30(pl, ch1, pts) ==
    IF pl \in {<<6, 6>>, <<6, 4>>, <<6, 1>>, <<6, 2>>}
       /\ pts[5][1] - pts[4][1] - 15 < 0
    THEN 1 ELSE ch1

\* lines 668-673  # Con for [i][pqz]
Rule31(pl, ch1, pts) ==
    IF pl \in {<<5, 4>>, <<5, 5>>, <<5, 1>>, <<0, 3>>, <<0, 7>>, <<5, 0>>, <<0, 2>>, <<6, 2>>, <<7, 5>>, <<7, 1>>, <<7, 6>>, <<7, 7>>}
       /\ (pts[6][2] < pts[8][2] /\ pts[10][2] < pts[12][2] /\ pts[14][2] < pts[16][2] /\ pts[18][2] > pts[20][2])
    THEN 1 ELSE ch1

\* lines 676-682  # Con for [yj][bfdi]
Rule32(pl, ch1, pts) ==
    IF pl \in {<<1, 5>>, <<1, 7>>, <<1, 1>>, <<1, 6>>, <<1, 3>>, <<1, 0>>}
       /\ (pts[4][1] < pts[5][1] + 15 /\ (pts[6][2] < pts[8][2] /\ pts[10][2] < pts[12][2] /\ pts[14][2] < pts[16][2] /\ pts[18][2] > pts[20][2]))
    THEN 7 ELSE ch1

\* lines 685-690  # Con for [uvr]
Rule33(pl, ch1, pts) ==
    IF pl \in {<<5, 5>>, <<5, 0>>, <<5, 4>>, <<5, 1>>, <<4, 6>>, <<4, 1>>, <<7, 6>>, <<3, 0>>, <<3, 5>>}
       /\ ((pts[6][2] > pts[8][2] /\ pts[10][2] > pts[12][2] /\ pts[14][2] < pts[16][2] /\ pts[18][2] < pts[20][2]) /\ pts[4][2] > pts[14][2])
    THEN 1 ELSE ch1

\* lines 694-701  # Con for [w]
Rule34(pl, ch1, pts) ==
    IF pl \in {<<3, 5>>, <<3, 0>>, <<3, 6>>, <<5, 1>>, <<4, 1>>, <<2, 0>>, <<5, 0>>, <<5, 5>>}
       /\ (~(pts[0][1] + 13 < pts[8][1] /\ pts[0][1] + 13 < pts[12][1] /\ pts[0][1] + 13 < pts[16][1] /\ pts[0][1] + 13 < pts[20][1]) /\ ~(pts[0][1] > pts[8][1] /\ pts[0][1] > pts[12][1] /\ pts[0][1] > pts[16][1] /\ pts[0][1] > pts[20][1]) /\ Dist2(pts[4], pts[11]) < 50 * 50)
    THEN 1 ELSE ch1

\* lines 704-708  # Con for [w]
Rule35(pl, ch1, pts) ==
    IF pl \in {<<5, 0>>, <<5, 5>>, <<0, 1>>}
       /\ (pts[6][2] > pts[8][2] /\ pts[10][2] > pts[12][2] /\ pts[14][2] > pts[16][2])
    THEN 1 ELSE ch1

\* The rule sequence.  pl is computed at line 442 and not recomputed before
\* the second rule (line 456); every later rule recomputes it.
Refine(c1, c2, pts) ==
    LET r01 == Rule01(<<c1, c2>>, c1, pts)
        r02 == Rule02(<<c1, c2>>, r01, pts)
        r03 == Rule03(<<r02, c2>>, r02, pts)
        r04 == Rule04(<<r03, c2>>, r03, pts)
        r05 == Rule05(<<r04, c2>>, r04, pts)
        r06 == Rule06(<<r05, c2>>, r05, pts)
        r07 == Rule07(<<r06, c2>>, r06, pts)
        r08 == Rule08(<<r07, c2>>, r07, pts)
        r09 == Rule09(<<r08, c2>>, r08, pts)
        r10 == Rule10(<<r09, c2>>, r09, pts)
        r11 == Rule11(<<r10, c2>>, r10, pts)
        r12 == Rule12(<<r11, c2>>, r11, pts)
        r13 == Rule13(<<r12, c2>>, r12, pts)
        r14 == Rule14(<<r13, c2>>, r13, pts)
        r15 == Rule15(<<r14, c2>>, r14, pts)
        r16 == Rule16(<<r15, c2>>, r15, pts)
        r17 == Rule17(<<r16, c2>>, r16, pts)
        r18 == Rule18(<<r17, c2>>, r17, pts)
        r19 == Rule19(<<r18, c2>>, r18, pts)
        r20 == Rule20(<<r19, c2>>, r19, pts)
        r21 == Rule21(<<r20, c2>>, r20, pts)
        r22 == Rule22(<<r21, c2>>, r21, pts)
        r23 == Rule23(<<r22, c2>>, r22, pts)
        r24 == Rule24(<<r23, c2>>, r23, pts)
        r25 == Rule25(<<r24, c2>>, r24, pts)
        r26 == Rule26(<<r25, c2>>, r25, pts)
        r27 == Rule27(<<r26, c2>>, r26, pts)
        r28 == Rule28(<<r27, c2>>, r27, pts)
        r29 == Rule29(<<r28, c2>>, r28, pts)
        r30 == Rule30(<<r29, c2>>, r29, pts)
        r31 == Rule31(<<r30, c2>>, r30, pts)
        r32 == Rule32(<<r31, c2>>, r31, pts)
        r33 == Rule33(<<r32, c2>>, r32, pts)
        r34 == Rule34(<<r33, c2>>, r33, pts)
        r35 == Rule35(<<r34, c2>>, r34, pts)
    IN  r35

----------------------------------------------------------------------------
(* Subgroup / letter resolver, lines 713-790 *)

\* finger extended: the pip joint lies below the tip on screen
IndexUp(pts) == pts[6][2] > pts[8][2]
MiddleUp(pts) == pts[10][2] > pts[12][2]
RingUp(pts) == pts[14][2] > pts[16][2]
PinkyUp(pts) == pts[18][2] > pts[20][2]
IndexDown(pts) == pts[6][2] < pts[8][2]
MiddleDown(pts) == pts[10][2] < pts[12][2]
RingDown(pts) == pts[14][2] < pts[16][2]
PinkyDown(pts) == pts[18][2] < pts[20][2]

\* a slip of Group0: the five ifs read as an if / elif chain, where the first
\* match wins
Group0FirstWins(pts) ==
    IF /\ pts[4][1] < pts[6][1] /\ pts[4][1] < pts[10][1]
       /\ pts[4][1] < pts[14][1] /\ pts[4][1] < pts[18][1]
    THEN "A"
    ELSE IF /\ pts[4][1] > pts[6][1] /\ pts[4][1] < pts[10][1]
            /\ pts[4][1] < pts[14][1] /\ pts[4][1] < pts[18][1]
            /\ pts[4][2] < pts[14][2] /\ pts[4][2] < pts[18][2]
    THEN "T"
    ELSE IF /\ pts[4][2] > pts[8][2] /\ pts[4][2] > pts[12][2]
            /\ pts[4][2] > pts[16][2] /\ pts[4][2] > pts[20][2]
    THEN "E"
    ELSE IF /\ pts[4][1] > pts[6][1] /\ pts[4][1] > pts[10][1]
            /\ pts[4][1] > pts[14][1] /\ pts[4][2] < pts[18][2]
    THEN "M"
    ELSE IF /\ pts[4][1] > pts[6][1] /\ pts[4][1] > pts[10][1]
            /\ pts[4][2] < pts[18][2] /\ pts[4][2] < pts[14][2]
    THEN "N"
    ELSE "S"

\* lines 713-725: independent ifs, a later match overwrites an earlier one
Group0(pts) ==
    LET s0 == "S"
        s1 == IF /\ pts[4][1] < pts[6][1] /\ pts[4][1] < pts[10][1]
                 /\ pts[4][1] < pts[14][1] /\ pts[4][1] < pts[18][1]
              THEN "A" ELSE s0
        s2 == IF /\ pts[4][1] > pts[6][1] /\ pts[4][1] < pts[10][1]
                 /\ pts[4][1] < pts[14][1] /\ pts[4][1] < pts[18][1]
                 /\ pts[4][2] < pts[14][2] /\ pts[4][2] < pts[18][2]
              THEN "T" ELSE s1
        s3 == IF /\ pts[4][2] > pts[8][2] /\ pts[4][2] > pts[12][2]
                 /\ pts[4][2] > pts[16][2] /\ pts[4][2] > pts[20][2]
              THEN "E" ELSE s2
        s4 == IF /\ pts[4][1] > pts[6][1] /\ pts[4][1] > pts[10][1]
                 /\ pts[4][1] > pts[14][1] /\ pts[4][2] < pts[18][2]
              THEN "M" ELSE s3
        s5 == IF /\ pts[4][1] > pts[6][1] /\ pts[4][1] > pts[10][1]
                 /\ pts[4][2] < pts[18][2] /\ pts[4][2] < pts[14][2]
              THEN "N" ELSE s4
    IN  s5

\* the integer part of math.sqrt(n) for a sum of squares n of pixel differences
SqrtFloor(n) == CHOOSE r \in 0..1024 : r * r <= n /\ (r + 1) * (r + 1) > n

\* a slip of DistanceExceeds: the root is truncated to whole pixels before
\* it is compared
DistanceExceedsTruncated(a, b, c) == SqrtFloor(Dist2(a, b)) > c

\* distance(a, b) > c for an integer c, lines 33-34: the root of the sum of
\* squares exceeds c when its integer part does, or when its integer part is c
\* and a fraction is left.  math.sqrt is correctly rounded and the sums are far
\* below 2^53, so the float comparison agrees with the real one.
DistanceExceeds(a, b, c) ==
    LET n == Dist2(a, b)
        r == SqrtFloor(n)
    IN  r > c \/ (r = c /\ r * r < n)

\* lines 727-731
Group2(pts) == IF DistanceExceeds(pts[12], pts[4], 42) THEN "C" ELSE "O"

\* lines 733-737
Group3(pts) == IF DistanceExceeds(pts[8], pts[12], 72) THEN "G" ELSE "H"

\* lines 739-743
Group7(pts) == IF DistanceExceeds(pts[8], pts[4], 42) THEN "Y" ELSE "J"

\* lines 751-758
Group5(pts) ==
    IF pts[4][1] > pts[12][1] /\ pts[4][1] > pts[16][1] /\ pts[4][1] > pts[20][1]
    THEN IF pts[8][2] < pts[5][2] THEN "Z" ELSE "Q"
    ELSE "P"

\* lines 760-790: independent ifs; ch1 stays the integer 1 when none holds
Group1(pts) ==
    LET d == Dist2(pts[8], pts[12])
        e == Dist2(pts[6], pts[10])
        s0 == IntOne
        s1 == IF IndexUp(pts) /\ MiddleUp(pts) /\ RingUp(pts) /\ PinkyUp(pts)
              THEN "B" ELSE s0
        s2 == IF IndexUp(pts) /\ MiddleDown(pts) /\ RingDown(pts) /\ PinkyDown(pts)
              THEN "D" ELSE s1
        s3 == IF IndexDown(pts) /\ MiddleUp(pts) /\ RingUp(pts) /\ PinkyUp(pts)
              THEN "F" ELSE s2
        s4 == IF IndexDown(pts) /\ MiddleDown(pts) /\ RingDown(pts) /\ PinkyUp(pts)
              THEN "I" ELSE s3
        s5 == IF IndexUp(pts) /\ MiddleUp(pts) /\ RingUp(pts) /\ PinkyDown(pts)
              THEN "W" ELSE s4
        s6 == IF /\ IndexUp(pts) /\ MiddleUp(pts) /\ RingDown(pts) /\ PinkyDown(pts)
                 /\ pts[4][2] < pts[9][2]
              THEN "K" ELSE s5
        s7 == IF /\ DistDiffLess8(d, e)
                 /\ IndexUp(pts) /\ MiddleUp(pts) /\ RingDown(pts) /\ PinkyDown(pts)
              THEN "U" ELSE s6
        s8 == IF /\ ~DistDiffLess8(d, e)
                 /\ IndexUp(pts) /\ MiddleUp(pts) /\ RingDown(pts) /\ PinkyDown(pts)
                 /\ pts[4][2] > pts[9][2]
              THEN "V" ELSE s7
        s9 == IF /\ pts[8][1] > pts[12][1]
                 /\ IndexUp(pts) /\ MiddleUp(pts) /\ RingDown(pts) /\ PinkyDown(pts)
              THEN "R" ELSE s8
    IN  s9

\* lines 713-790: the refined group g in 0..7 to a letter (or IntOne)
Resolve(g, pts) ==
    CASE g = 0 -> Group0(pts)
      [] g = 2 -> Group2(pts)
      [] g = 3 -> Group3(pts)
      [] g = 7 -> Group7(pts)
      [] g = 4 -> "L"
      [] g = 6 -> "X"
      [] g = 5 -> Group5(pts)
      [] g = 1 -> Group1(pts)

----------------------------------------------------------------------------
(* Post-resolution overrides, lines 792-810 *)

\* a slip of SpaceOverride: the test of line 792 on the symbol is left out
SpaceOverrideAny(s, pts) ==
    IF IndexUp(pts) /\ MiddleDown(pts) /\ RingDown(pts) /\ PinkyUp(pts)
    THEN SPACE ELSE s

\* lines 792-795; the resolver's space is the one-character string
SpaceOverride(s, pts) ==
    IF /\ s \in {IntOne, "E", "S", "X", "Y", "B"}
       /\ IndexUp(pts) /\ MiddleDown(pts) /\ RingDown(pts) /\ PinkyUp(pts)
    THEN SPACE ELSE s

\* a slip of NextOverride: the test of line 797 on the letter is left out
NextOverrideAny(s, pts) ==
    IF /\ pts[4][1] < pts[5][1]
       /\ IndexUp(pts) /\ MiddleUp(pts) /\ RingUp(pts) /\ PinkyUp(pts)
    THEN NEXT ELSE s

\* a slip of NextOverride: the thumb test of line 798 is left out
NextOverrideNoThumb(s, pts) ==
    IF /\ s \in {"E", "Y", "B"}
       /\ IndexUp(pts) /\ MiddleUp(pts) /\ RingUp(pts) /\ PinkyUp(pts)
    THEN NEXT ELSE s

\* lines 797-801
NextOverride(s, pts) ==
    IF /\ s \in {"E", "Y", "B"}
       /\ pts[4][1] < pts[5][1]
       /\ IndexUp(pts) /\ MiddleUp(pts) /\ RingUp(pts) /\ PinkyUp(pts)
    THEN NEXT ELSE s

\* a slip of BackspaceOverride: line 803 read as a membership test
BackspaceOverrideListed(s, pts) ==
    IF /\ s \in {"Next", "B", "C", "H", "F", "X"}
       /\ pts[0][1] > pts[8][1] /\ pts[0][1] > pts[12][1]
       /\ pts[0][1] > pts[16][1] /\ pts[0][1] > pts[20][1]
       /\ pts[4][2] < pts[8][2] /\ pts[4][2] < pts[12][2]
       /\ pts[4][2] < pts[16][2] /\ pts[4][2] < pts[20][2]
       /\ pts[4][2] < pts[6][2] /\ pts[4][2] < pts[10][2]
       /\ pts[4][2] < pts[14][2] /\ pts[4][2] < pts[18][2]
    THEN BACKSPACE ELSE s

\* lines 803-810; the condition of line 803 is `ch1 == 'Next' or 'B' or ...`,
\* which is true for every ch1 because 'B' is a non-empty string
BackspaceOverride(s, pts) ==
    IF /\ (s = "Next" \/ TRUE)
       /\ pts[0][1] > pts[8][1] /\ pts[0][1] > pts[12][1]
       /\ pts[0][1] > pts[16][1] /\ pts[0][1] > pts[20][1]
       /\ pts[4][2] < pts[8][2] /\ pts[4][2] < pts[12][2]
       /\ pts[4][2] < pts[16][2] /\ pts[4][2] < pts[20][2]
       /\ pts[4][2] < pts[6][2] /\ pts[4][2] < pts[10][2]
       /\ pts[4][2] < pts[14][2] /\ pts[4][2] < pts[18][2]
    THEN BACKSPACE ELSE s

\* lines 442-810: the symbol of a frame from the top-2 groups and the landmarks
Symbol(c1, c2, pts) ==
    BackspaceOverride(
        NextOverride(
            SpaceOverride(Resolve(Refine(c1, c2, pts), pts), pts), pts), pts)

----------------------------------------------------------------------------
(* Text helpers: Python str operations on sequences of characters *)

Blank == <<" ">>

\* len(s.strip()) == 0
IsBlank(s) == \A i \in 1..Len(s) : s[i] = " "

\* s.rfind(" "), 0-based, -1 when s holds no space
RFind(s) ==
    IF \E i \in 1..Len(s) : s[i] = " "
    THEN (CHOOSE i \in 1..Len(s) :
              s[i] = " " /\ \A j \in (i + 1)..Len(s) : s[j] # " ") - 1
    ELSE -1

\* s[st + 1:ed] of lines 832-834: the fragment after the last space
TrailingWord(s) == SubSeq(s, RFind(s) + 2, Len(s))

\* a slip of DropLast: s[1:], the slice taken at the wrong end
DropFirst(s) == SubSeq(s, 2, Len(s))

\* s[0:-1]
DropLast(s) == SubSeq(s, 1, Len(s) - 1)

RECURSIVE SplitFrom(_, _, _)
\* s.split(): the maximal runs of non-space characters; cur is the run being read
SplitFrom(s, i, cur) ==
    IF i > Len(s)
    THEN IF cur = <<>> THEN <<>> ELSE <<cur>>
    ELSE IF s[i] = " "
         THEN (IF cur = <<>> THEN <<>> ELSE <<cur>>) \o SplitFrom(s, i + 1, <<>>)
         ELSE SplitFrom(s, i + 1, Append(cur, s[i]))

Split(s) == SplitFrom(s, 1, <<>>)

RECURSIVE Join(_)
\* " ".join(ws)
Join(ws) ==
    IF Len(ws) = 0 THEN <<>>
    ELSE IF Len(ws) = 1 THEN ws[1]
    ELSE ws[1] \o <<" ">> \o Join(Tail(ws))

----------------------------------------------------------------------------
(* Token-stream assembler, lines 812-829 *)

\* a slip of CommitSlot: the slot one frame back
CommitSlotOneBack(c) == (c - 1) % 10

\* a slip of CommitSlot: the slot the previous frame wrote
CommitSlotNoLag(c) == (c - 0) % 10

\* line 813: the history slot a commit reads
CommitSlot(c) == (c - 2) % 10

\* line 820: the slot read when CommitSlot holds "next"
FallbackSlot(c) == (c - 0) % 10

\* a slip of CommitGuard: the test of prev_char left out
CommitGuardNoPrev(s, prev) == s = NEXT

\* a slip of CommitGuard: `or` written for `and`
CommitGuardOr(s, prev) == s = NEXT \/ prev # NEXT

\* line 812
CommitGuard(s, prev) == s = NEXT /\ prev # NEXT

\* a slip of SpaceGuard: the test of line 823 made on the resolver's
\* one-character space
SpaceGuardOneChar(s, prev) == s = " " /\ prev # " "

\* line 823: the assembler's space token is the two-character string
SpaceGuard(s, prev) == s = "  " /\ prev # "  "

\* lines 818 and 821: str + value raises TypeError unless value is a str
CommitRaises(s, prev, ten, c) ==
    /\ CommitGuard(s, prev)
    /\ IF ten[CommitSlot(c)] # NEXT
       THEN ten[CommitSlot(c)] # BACKSPACE /\ ~IsStr(ten[CommitSlot(c)])
       ELSE ten[FallbackSlot(c)] # BACKSPACE /\ ~IsStr(ten[FallbackSlot(c)])

\* a slip of Commit: the committed symbol put in front of the text
CommitInFront(text, s, prev, ten, c) ==
    IF s = NEXT /\ prev # NEXT
    THEN IF ten[(c - 2) % 10] # NEXT
         THEN IF ten[(c - 2) % 10] = BACKSPACE
              THEN SubSeq(text, 1, Len(text) - 1)
              ELSE Chars(ten[(c - 2) % 10]) \o text
         ELSE IF ten[c % 10] # BACKSPACE
              THEN Chars(ten[c % 10]) \o text
              ELSE text
    ELSE text

\* lines 812-821
Commit(text, s, prev, ten, c) ==
    IF CommitGuard(s, prev)
    THEN IF ten[CommitSlot(c)] # NEXT
         THEN IF ten[CommitSlot(c)] = BACKSPACE
              THEN DropLast(text)
              ELSE text \o Chars(ten[CommitSlot(c)])
         ELSE IF ten[FallbackSlot(c)] # BACKSPACE
              THEN text \o Chars(ten[FallbackSlot(c)])
              ELSE text
    ELSE text

\* lines 823-824
AppendSpace(text, s, prev) ==
    IF SpaceGuard(s, prev) THEN text \o <<" ", " ">> ELSE text

\* a slip of StoreSlot: the symbol stored before the counter is advanced
StoreSlotBefore(c) == c % 10

\* lines 826-829: the slot the frame's symbol is written to
StoreSlot(c) == (c + 1) % 10

\* lines 831-862: the suggestion slots after a frame; sugg is what
\* self.ddd.suggest(word) returns for the trailing word
Slot(i, text, sugg, old) ==
    IF IsBlank(text) THEN old
    ELSE IF IsBlank(TrailingWord(text)) THEN Blank
    ELSE IF Len(sugg) >= i THEN sugg[i] ELSE Blank

\* the last four symbols predict stored in the history
Remember(em, s) ==
    IF Len(em) < 4 THEN Append(em, s) ELSE Append(Tail(em), s)

----------------------------------------------------------------------------
(* Inputs *)

\* the frames one session processes
MaxFrames == 5

\* the frames one session processes when it draws from DeepFrames
MaxDeepFrames == 6

\* the frames one session processes when update_frame can fail
MaxFaultFrames == 5

\* A hand on the 400x400 canvas: wrist, thumb tip and, per finger, whether
\* it is extended (tip above the pip joint) or curled (tip below it).
Hand(wrist, thumb, up) ==
    LET bx == <<170, 195, 220, 245>>
        f(i) == (i - 5) \div 4 + 1
        k(i) == (i - 5) % 4
    IN  [i \in 0..20 |->
            IF i = 0 THEN wrist
            ELSE IF i = 1 THEN <<175, 310>>
            ELSE IF i = 2 THEN <<160, 285>>
            ELSE IF i = 3 THEN <<(160 + thumb[1]) \div 2, (285 + thumb[2]) \div 2>>
            ELSE IF i = 4 THEN thumb
            ELSE IF k(i) = 0 THEN <<bx[f(i)], 240>>
            ELSE IF k(i) = 1 THEN <<bx[f(i)], 200>>
            ELSE IF k(i) = 2 THEN <<bx[f(i)], IF up[f(i)] THEN 165 ELSE 215>>
            ELSE <<bx[f(i)], IF up[f(i)] THEN 130 ELSE 235>>]

\* a probability vector (in percent) whose two largest entries are a and b
Prob(a, b) == [i \in 0..7 |-> IF i = a THEN 60 ELSE IF i = b THEN 30 ELSE 1]

AllDown == <<FALSE, FALSE, FALSE, FALSE>>
AllUp == <<TRUE, TRUE, TRUE, TRUE>>

\* the frames of the session model, one per symbol of interest
FrameH == [prob |-> Prob(3, 7), pts |-> Hand(<<200, 330>>, <<140, 260>>, AllDown)]
FrameNext == [prob |-> Prob(0, 1), pts |-> Hand(<<200, 330>>, <<140, 260>>, AllUp)]
FrameBackspace == [prob |-> Prob(3, 7), pts |-> Hand(<<300, 330>>, <<150, 120>>, AllDown)]
FrameSpace ==
    [prob |-> Prob(0, 1),
     pts |-> Hand(<<200, 330>>, <<140, 260>>, <<TRUE, FALSE, FALSE, TRUE>>)]
FrameOne == [prob |-> Prob(1, 3), pts |-> Hand(<<200, 330>>, <<140, 260>>, AllDown)]

Frames == {FrameH, FrameNext, FrameBackspace, FrameSpace, FrameOne}

\* a slip of Classify: a letter, once emitted, is held until a control
\* gesture is seen
ClassifyHeld(in) ==
    LET top == Peel(in.prob)
        s == Symbol(top[1], top[2], in.pts)
    IN  IF prev_char \in Letters /\ s \notin {NEXT, BACKSPACE} THEN prev_char ELSE s

\* lines 434-810: the symbol predict resolves for a frame
Classify(in) == LET top == Peel(in.prob) IN Symbol(top[1], top[2], in.pts)

\* the symbols of the session's frames
FrameSymbols == {Classify(in) : in \in Frames}

\* fewer frames, for longer sessions
DeepFrames == {FrameH, FrameNext, FrameBackspace, FrameOne}

DeepSymbols == {Classify(in) : in \in DeepFrames}

\* the session's frames in a fixed order; a frame is named by its position
FrameList == <<FrameH, FrameNext, FrameBackspace, FrameSpace, FrameOne>>

FrameId(in) == CHOOSE k \in DOMAIN FrameList : FrameList[k] = in

\* each frame of a set, by name, with the symbol predict resolves for it
Classified(frames) == {<<FrameId(in), Classify(in)>> : in \in frames}

SessionFrames == Classified(Frames)

DeepSessionFrames == Classified(DeepFrames)

\* the frames of the sessions with failures
FaultFrames == {FrameH, FrameNext, FrameOne}

FaultSessionFrames == Classified(FaultFrames)

\* line 913: the landmark list must hold 21 points
MinLandmarks == 21

\* a slip of EnoughLandmarks: the bound off by one
EnoughLandmarksLax(n) == n >= MinLandmarks - 1

\* line 913
EnoughLandmarks(n) == n >= MinLandmarks

\* What one call of update_frame meets: hands, whether the two detectors
\* found a hand (lines 894-911); npts, the length of the landmark list;
\* raises, whether model.predict raises (line 434); id, the frame drawn.
NoHand == [hands |-> FALSE, npts |-> 0, raises |-> FALSE, id |-> 1]

FewPoints == [hands |-> TRUE, npts |-> MinLandmarks - 1, raises |-> FALSE, id |-> 1]

ModelFails == [hands |-> TRUE, npts |-> MinLandmarks, raises |-> TRUE, id |-> 1]

Full(id) == [hands |-> TRUE, npts |-> MinLandmarks, raises |-> FALSE, id |-> id]

CameraInputs(table) == {NoHand, FewPoints, ModelFails} \cup {Full(e[1]) : e \in table}

\* where predict can fail once lines 812-829 have run: in the dictionary
\* lookup of lines 837-838, before any slot is written, or in the display and
\* translation calls of lines 864-867, after all of them are.  (A failure of
\* one of the suggest calls of lines 840-855 differs from these only in the
\* number of slots already written.)
FailPoints == {"lookup", "display"}

\* whether predict makes the call that fails at a point: the dictionary is
\* consulted for a non-blank trailing word only
CanFailAt(at, text) ==
    \/ at = "display"
    \/ at = "lookup" /\ ~IsBlank(text) /\ ~IsBlank(TrailingWord(text))

\* what the dictionary can answer for a word: nothing, two or five candidates
SuggestionLists ==
    { <<>>,
      <<<<"H", "I">>, <<"H", "E">>>>,
      <<<<"H", "I">>, <<"H", "E">>, <<"H", "A">>, <<"H", "O">>, <<"H", "M">>>> }

----------------------------------------------------------------------------
(* State machine: one action per handler.  The history variables op,       *)
(* resolved, old_str, emitted, last_in, seen and failed record what the       *)
(* handlers did; no handler reads them.                                     *)

\* the state after __init__ (lines 103-120)
\* lines 27, 160-161: the mixer is initialised and silent, no worker has been
\* started, voice output is enabled.  requested counts the workers started;
\* pc[w] is the position of worker w in run; loaded is the worker whose file
\* the music channel holds (0: none) and busy is get_busy(); started is the
\* history of the files whose audio began to play, oldest first
NoSpeech ==
    [requested |-> 0, pc |-> <<>>, loaded |-> 0, busy |-> FALSE,
     started |-> <<>>, enable_voice |-> TRUE]

InitState ==
    /\ speech = NoSpeech
    /\ str = <<" ">>
    /\ prev_char = ""
    /\ ten_prev_char = [i \in 0..9 |-> " "]
    /\ count = -1
    /\ current_symbol = "Empty"
    /\ word1 = Blank
    /\ word2 = Blank
    /\ word3 = Blank
    /\ word4 = Blank
    /\ op = "init"
    /\ resolved = "Empty"
    /\ old_str = <<" ">>
    /\ emitted = <<>>
    /\ last_in = NoHand
    /\ seen = [k \in DOMAIN FrameList |-> {}]
    /\ failed = "none"

\* a session with the model loaded (lines 40-44)
Init ==
    /\ InitState
    /\ model_loaded = TRUE
    /\ fn_in = <<>>
    /\ fn_out = <<>>

\* lines 40-47: the model loaded, or load_model raised and model is None
InitFaults ==
    /\ InitState
    /\ model_loaded \in BOOLEAN
    /\ fn_in = <<>>
    /\ fn_out = <<>>

\* a slip of ReachesPredict: the model is not tested
ReachesPredictAnyModel(in) ==
    in.hands /\ EnoughLandmarks(in.npts)

\* lines 894-913: the frame gets as far as the call of predict
ReachesPredict(in) ==
    in.hands /\ model_loaded /\ EnoughLandmarks(in.npts)

\* update_frame when one of the guards of lines 894-913 fails: the frame is
\* displayed and nothing else happens
FrameSkipped(in) ==
    /\ ~ReachesPredict(in)
    /\ op' = "frame_skipped"
    /\ last_in' = in
    /\ old_str' = str
    /\ UNCHANGED <<str, prev_char, ten_prev_char, count, current_symbol,
                   word1, word2, word3, word4, resolved, emitted,
                   model_loaded, seen, failed, fn_in, fn_out, speech>>

\* update_frame when model.predict raises at line 434: the handler of lines
\* 981-984 prints the error
ModelRaises(in) ==
    /\ ReachesPredict(in)
    /\ in.raises
    /\ op' = "model_raised"
    /\ last_in' = in
    /\ old_str' = str
    /\ failed' = "model"
    /\ UNCHANGED <<str, prev_char, ten_prev_char, count, current_symbol,
                   word1, word2, word3, word4, resolved, emitted,
                   model_loaded, seen, fn_in, fn_out, speech>>

\* predict, lines 431-869, when it returns.  The calls of lines 864-867
\* (update_suggestion_buttons, setPlainText, translate_text) write widgets,
\* translated_text and last_word only, none of which predict, use_suggestion
\* or clear_sentence reads back into the variables below.
PredictReturns(in, s, sugg, limit) ==
    LET text == AppendSpace(Commit(str, s, prev_char, ten_prev_char, count),
                            s, prev_char)
    IN  /\ ReachesPredict(in)
        /\ ~in.raises
        /\ count + 1 < limit
        /\ ~CommitRaises(s, prev_char, ten_prev_char, count)
        /\ str' = text
        /\ prev_char' = s
        /\ current_symbol' = s
        /\ count' = count + 1
        /\ ten_prev_char' = [ten_prev_char EXCEPT ![StoreSlot(count)] = s]
        /\ word1' = Slot(1, text, sugg, word1)
        /\ word2' = Slot(2, text, sugg, word2)
        /\ word3' = Slot(3, text, sugg, word3)
        /\ word4' = Slot(4, text, sugg, word4)
        /\ op' = "predict"
        /\ resolved' = s
        /\ old_str' = str
        /\ emitted' = Remember(emitted, s)
        /\ last_in' = in
        /\ seen' = [seen EXCEPT ![in.id] = @ \cup {s}]
        /\ UNCHANGED <<model_loaded, failed, fn_in, fn_out, speech>>

\* a slip of PredictRaises: the history updated before the commit is tried
PredictRaisesHalfway(in, s, limit) ==
    /\ ReachesPredict(in)
    /\ ~in.raises
    /\ count + 1 < limit
    /\ CommitRaises(s, prev_char, ten_prev_char, count)
    /\ prev_char' = s
    /\ count' = count + 1
    /\ op' = "predict_raised"
    /\ resolved' = s
    /\ old_str' = str
    /\ last_in' = in
    /\ seen' = [seen EXCEPT ![in.id] = @ \cup {s}]
    /\ failed' = "commit"
    /\ UNCHANGED <<str, ten_prev_char, current_symbol,
                   word1, word2, word3, word4, emitted,
                   model_loaded, fn_in, fn_out, speech>>

\* predict when the commit of line 818 or 821 raises TypeError: update_frame
\* catches it (lines 981-984) and nothing after line 811 has run
PredictRaises(in, s, limit) ==
    /\ ReachesPredict(in)
    /\ ~in.raises
    /\ count + 1 < limit
    /\ CommitRaises(s, prev_char, ten_prev_char, count)
    /\ op' = "predict_raised"
    /\ resolved' = s
    /\ old_str' = str
    /\ last_in' = in
    /\ seen' = [seen EXCEPT ![in.id] = @ \cup {s}]
    /\ failed' = "commit"
    /\ UNCHANGED <<str, prev_char, ten_prev_char, count, current_symbol,
                   word1, word2, word3, word4, emitted,
                   model_loaded, fn_in, fn_out, speech>>

\* predict when a call after line 829 raises (the dictionary, a widget, the
\* translation or the speech start): lines 812-829 have run, the slots are
\* written only if the failing call comes after them, and update_frame
\* catches the exception
PredictFails(in, s, sugg, at, limit) ==
    LET text == AppendSpace(Commit(str, s, prev_char, ten_prev_char, count),
                            s, prev_char)
        written == at = "display"
    IN  /\ ReachesPredict(in)
        /\ ~in.raises
        /\ count + 1 < limit
        /\ ~CommitRaises(s, prev_char, ten_prev_char, count)
        /\ CanFailAt(at, text)
        /\ str' = text
        /\ prev_char' = s
        /\ current_symbol' = s
        /\ count' = count + 1
        /\ ten_prev_char' = [ten_prev_char EXCEPT ![StoreSlot(count)] = s]
        /\ word4' = IF written THEN Slot(4, text, sugg, word4) ELSE word4
        /\ word3' = IF written THEN Slot(3, text, sugg, word3) ELSE word3
        /\ word2' = IF written THEN Slot(2, text, sugg, word2) ELSE word2
        /\ word1' = IF written THEN Slot(1, text, sugg, word1) ELSE word1
        /\ op' = "predict_failed"
        /\ resolved' = s
        /\ old_str' = str
        /\ emitted' = Remember(emitted, s)
        /\ last_in' = in
        /\ seen' = [seen EXCEPT ![in.id] = @ \cup {s}]
        /\ failed' = "late"
        /\ UNCHANGED <<model_loaded, fn_in, fn_out, speech>>

\* the call of predict at line 974 for the frame of the table entry e,
\* while fewer than limit frames have been stored, when no call after line
\* 829 fails
Predict(in, e, limit) ==
    \/ \E sugg \in SuggestionLists : PredictReturns(in, e[2], sugg, limit)
    \/ PredictRaises(in, e[2], limit)

\* update_frame, lines 871-988, for one camera frame
UpdateFrame(table, limit) ==
    \E in \in CameraInputs(table) :
        \/ FrameSkipped(in)
        \/ ModelRaises(in)
        \/ \E e \in table :
               /\ e[1] = in.id
               /\ \/ Predict(in, e, limit)
                  \/ \E sugg \in SuggestionLists, at \in FailPoints :
                         PredictFails(in, e[2], sugg, at, limit)

\* use_suggestion, lines 345-357, for the button of slot index (0..3)
UseSuggestion(index) ==
    LET suggestions == <<word1, word2, word3, word4>>
        pick == suggestions[index + 1]
        words == Split(str)
    IN  /\ str' = IF ~IsBlank(pick)
                  THEN IF words # <<>>
                       THEN Join(SubSeq(words, 1, Len(words) - 1) \o <<pick>>)
                       ELSE Join(<<pick>>)
                  ELSE str
        /\ op' = "use_suggestion"
        /\ old_str' = str
        /\ UNCHANGED <<prev_char, ten_prev_char, count, current_symbol,
                       word1, word2, word3, word4, resolved, emitted,
                       model_loaded, last_in, seen, failed,
                       fn_in, fn_out, speech>>

\* a slip of clear_sentence: the text reset to the empty string
ClearSentenceEmpty ==
    /\ str' = <<>>
    /\ word1' = Blank
    /\ word2' = Blank
    /\ word3' = Blank
    /\ word4' = Blank
    /\ op' = "clear_sentence"
    /\ old_str' = str
    /\ UNCHANGED <<prev_char, ten_prev_char, count, current_symbol,
                   resolved, emitted,
                   model_loaded, last_in, seen, failed,
                       fn_in, fn_out, speech>>

\* clear_sentence, lines 414-423
ClearSentence ==
    /\ str' = <<" ">>
    /\ word1' = Blank
    /\ word2' = Blank
    /\ word3' = Blank
    /\ word4' = Blank
    /\ op' = "clear_sentence"
    /\ old_str' = str
    /\ UNCHANGED <<prev_char, ten_prev_char, count, current_symbol,
                   resolved, emitted,
                   model_loaded, last_in, seen, failed,
                       fn_in, fn_out, speech>>

\* sessions in which every camera frame reaches predict and no call after
\* line 829 fails
Next ==
    \/ \E e \in SessionFrames : Predict(Full(e[1]), e, MaxFrames)
    \/ \E index \in 0..3 : UseSuggestion(index)
    \/ ClearSentence

Spec == Init /\ [][Next]_vars

NextDeep ==
    \/ \E e \in DeepSessionFrames : Predict(Full(e[1]), e, MaxDeepFrames)
    \/ \E index \in 0..3 : UseSuggestion(index)
    \/ ClearSentence

SpecDeep == Init /\ [][NextDeep]_vars

\* sessions with every outcome of update_frame: frames without a hand or
\* with too few landmarks, the model missing or failing, predict failing
NextFaults ==
    \/ UpdateFrame(FaultSessionFrames, MaxFaultFrames)
    \/ \E index \in 0..3 : UseSuggestion(index)
    \/ ClearSentence

SpecFaults == InitFaults /\ [][NextFaults]_vars

----------------------------------------------------------------------------
(* The pure functions of predict, each applied once to an argument drawn   *)
(* from a bounded set.                                                      *)

\* the entries of the probability vectors studied
MaxProb == 2

\* length-8 vectors of non-negative confidences, zeros and ties included
ProbVectors == [0..7 -> 0..MaxProb]

InitPeel ==
    /\ InitState
    /\ model_loaded = TRUE
    /\ fn_in \in ProbVectors
    /\ fn_out = <<>>

\* lines 434-440 applied to the vector fn_in
ApplyPeel ==
    /\ fn_out = <<>>
    /\ fn_out' = Peel(fn_in)
    /\ UNCHANGED <<str, prev_char, ten_prev_char, count, current_symbol,
                   word1, word2, word3, word4, op, resolved, old_str, emitted,
                   model_loaded, last_in, seen, failed, fn_in, speech>>

SpecPeel == InitPeel /\ [][ApplyPeel]_vars

\* the k-th rule of the refiner, in source order
RuleAt(k, pl, ch1, pts) ==
    CASE k = 1 -> Rule01(pl, ch1, pts)
      [] k = 2 -> Rule02(pl, ch1, pts)
      [] k = 3 -> Rule03(pl, ch1, pts)
      [] k = 4 -> Rule04(pl, ch1, pts)
      [] k = 5 -> Rule05(pl, ch1, pts)
      [] k = 6 -> Rule06(pl, ch1, pts)
      [] k = 7 -> Rule07(pl, ch1, pts)
      [] k = 8 -> Rule08(pl, ch1, pts)
      [] k = 9 -> Rule09(pl, ch1, pts)
      [] k = 10 -> Rule10(pl, ch1, pts)
      [] k = 11 -> Rule11(pl, ch1, pts)
      [] k = 12 -> Rule12(pl, ch1, pts)
      [] k = 13 -> Rule13(pl, ch1, pts)
      [] k = 14 -> Rule14(pl, ch1, pts)
      [] k = 15 -> Rule15(pl, ch1, pts)
      [] k = 16 -> Rule16(pl, ch1, pts)
      [] k = 17 -> Rule17(pl, ch1, pts)
      [] k = 18 -> Rule18(pl, ch1, pts)
      [] k = 19 -> Rule19(pl, ch1, pts)
      [] k = 20 -> Rule20(pl, ch1, pts)
      [] k = 21 -> Rule21(pl, ch1, pts)
      [] k = 22 -> Rule22(pl, ch1, pts)
      [] k = 23 -> Rule23(pl, ch1, pts)
      [] k = 24 -> Rule24(pl, ch1, pts)
      [] k = 25 -> Rule25(pl, ch1, pts)
      [] k = 26 -> Rule26(pl, ch1, pts)
      [] k = 27 -> Rule27(pl, ch1, pts)
      [] k = 28 -> Rule28(pl, ch1, pts)
      [] k = 29 -> Rule29(pl, ch1, pts)
      [] k = 30 -> Rule30(pl, ch1, pts)
      [] k = 31 -> Rule31(pl, ch1, pts)
      [] k = 32 -> Rule32(pl, ch1, pts)
      [] k = 33 -> Rule33(pl, ch1, pts)
      [] k = 34 -> Rule34(pl, ch1, pts)
      [] k = 35 -> Rule35(pl, ch1, pts)

\* the number of refiner rules
NumRules == 35

\* a slip of EnteringPair: every rule tests the pair of line 442
EnteringPairStale(k, c1, c2, before) == <<c1, c2>>

\* a slip of EnteringPair: the third rule, like the second, reuses the pair
\* of line 442
EnteringPairStaleThird(k, c1, c2, before) ==
    IF k \in {2, 3} THEN <<c1, c2>> ELSE <<before, c2>>

\* the pair pl that rule k tests when ch1 holds before: line 442 computes it
\* from the peel, every rule but the second recomputes it from the current
\* ch1 (lines 462, 470, ...), the second (lines 455-458) reuses line 442's
EnteringPair(k, c1, c2, before) ==
    IF k = 2 THEN <<c1, c2>> ELSE <<before, c2>>

\* ch1 after each of the first k rules, lines 442-708
RECURSIVE RefineTrace(_, _, _, _)
RefineTrace(k, c1, c2, pts) ==
    IF k = 0 THEN <<>>
    ELSE LET t == RefineTrace(k - 1, c1, c2, pts)
             before == IF k = 1 THEN c1 ELSE t[k - 1]
         IN  Append(t, RuleAt(k, EnteringPair(k, c1, c2, before), before, pts))

\* hands whose landmarks the refiner is studied on
Wrists == {<<200, 330>>, <<300, 330>>, <<100, 330>>}

Thumbs == {<<140, 260>>, <<150, 120>>, <<185, 225>>, <<210, 210>>,
           <<260, 250>>, <<130, 200>>}

Fingers == {<<a, b, c, d>> : a \in BOOLEAN, b \in BOOLEAN,
                             c \in BOOLEAN, d \in BOOLEAN}

\* a group prediction (ch1, ch2) and a hand
RefineInputs ==
    [c1 : 0..7, c2 : 0..7, wrist : Wrists, thumb : Thumbs, up : Fingers]

InitRefine ==
    /\ InitState
    /\ model_loaded = TRUE
    /\ fn_in \in RefineInputs
    /\ fn_out = <<>>

\* lines 442-708 applied to the group prediction and hand fn_in
ApplyRefine ==
    /\ fn_out = <<>>
    /\ fn_out' = RefineTrace(NumRules, fn_in.c1, fn_in.c2,
                             Hand(fn_in.wrist, fn_in.thumb, fn_in.up))
    /\ UNCHANGED <<str, prev_char, ten_prev_char, count, current_symbol,
                   word1, word2, word3, word4, op, resolved, old_str, emitted,
                   model_loaded, last_in, seen, failed, fn_in, speech>>

SpecRefine == InitRefine /\ [][ApplyRefine]_vars

\* lines 442-810 step by step: the refined group (ch1 after the last rule),
\* the resolved symbol and the symbol after each of the three overrides
SymbolTrace(c1, c2, pts) ==
    LET g == RefineTrace(NumRules, c1, c2, pts)[NumRules]
        r == Resolve(g, pts)
        s == SpaceOverride(r, pts)
        n == NextOverride(s, pts)
        b == BackspaceOverride(n, pts)
    IN  [group |-> g, resolved |-> r, spaced |-> s, nexted |-> n, symbol |-> b]

\* thumb tips that separate the predicates of group 0 (T, M, N alone and
\* together) and that lie at, just outside and diagonally just outside 42
\* pixels from a curled middle and a curled index fingertip
SymbolThumbs ==
    Thumbs \cup {<<185, 190>>, <<205, 190>>, <<230, 190>>,
                 <<237, 235>>, <<238, 235>>, <<237, 230>>,
                 <<212, 235>>, <<213, 235>>, <<212, 230>>}

\* changes to the hand: the index fingertip moved sideways by the first
\* number and down by the second (72 and 73 pixels from the middle fingertip
\* when both fingers are curled or both extended, and diagonally just above 72
\* pixels), and the middle joint of the pinky lowered by the third, which
\* leaves room for a thumb tip below the ring joint and above the pinky joint
Spreads == {<<47, 0, 0>>, <<48, 0, 0>>, <<47, 5, 0>>, <<0, 0, 15>>}

\* the hand of the input in, changed by in.spread
SpreadHand(in) ==
    LET pts == Hand(in.wrist, in.thumb, in.up)
    IN  [pts EXCEPT ![8] = <<pts[8][1] - in.spread[1], pts[8][2] + in.spread[2]>>,
                    ![18] = <<pts[18][1], pts[18][2] + in.spread[3]>>]

\* a group prediction (ch1, ch2) and a hand for the resolver and the overrides
SymbolInputs ==
    [c1 : 0..7, c2 : 0..7, wrist : Wrists, thumb : SymbolThumbs, up : Fingers,
     spread : {<<0, 0, 0>>}]
    \cup [c1 : 0..7, c2 : 0..7, wrist : {<<200, 330>>},
          thumb : {<<140, 260>>, <<230, 205>>}, up : Fingers, spread : Spreads]

InitSymbol ==
    /\ InitState
    /\ model_loaded = TRUE
    /\ fn_in \in SymbolInputs
    /\ fn_out = <<>>

\* lines 442-810 applied to the group prediction and hand fn_in
ApplySymbol ==
    /\ fn_out = <<>>
    /\ fn_out' = SymbolTrace(fn_in.c1, fn_in.c2, SpreadHand(fn_in))
    /\ UNCHANGED <<str, prev_char, ten_prev_char, count, current_symbol,
                   word1, word2, word3, word4, op, resolved, old_str, emitted,
                   model_loaded, last_in, seen, failed, fn_in, speech>>

SpecSymbol == InitSymbol /\ [][ApplySymbol]_vars

----------------------------------------------------------------------------
(* Speech: speak_text on the GUI thread, SpeechWorker.run on its own thread,
   and the one music channel of pygame.mixer that all of them share *)

\* the calls of speak_text one run makes
MaxSpeech == 2

\* the variables of the text assembler and of the pure functions
Session ==
    <<str, prev_char, ten_prev_char, count, current_symbol,
      word1, word2, word3, word4, op, resolved, old_str, emitted,
      model_loaded, last_in, seen, failed, fn_in, fn_out>>

Workers == 1..speech.requested

\* lines 363-364
ToggleVoice ==
    /\ \E state \in BOOLEAN : speech' = [speech EXCEPT !.enable_voice = state]
    /\ UNCHANGED Session

\* lines 370-380: returns at once when voice is off; stops the channel only
\* if it is playing at this moment; then starts a new worker, whatever the
\* previous one is doing; a blank text makes run skip to its last line
SpeakText ==
    /\ speech.requested < MaxSpeech
    /\ speech.enable_voice
    /\ \E blank \in BOOLEAN :
           speech' = [speech EXCEPT
                         !.busy = FALSE,
                         !.requested = @ + 1,
                         !.pc = Append(@, IF blank THEN "emit" ELSE "synth")]
    /\ UNCHANGED Session

\* lines 61-68: gTTS and tts.save fetch the audio over the network and write
\* the temporary file, or raise (line 81)
WorkerSynth(w) ==
    /\ speech.pc[w] = "synth"
    /\ \E ok \in BOOLEAN :
           speech' = [speech EXCEPT !.pc[w] = IF ok THEN "load" ELSE "emit"]
    /\ UNCHANGED Session

\* line 71: music.load replaces whatever the channel holds and ends its
\* playback
WorkerLoad(w) ==
    /\ speech.pc[w] = "load"
    /\ speech' = [speech EXCEPT !.pc[w] = "play", !.loaded = w, !.busy = FALSE]
    /\ UNCHANGED Session

\* line 72: music.play starts the file the channel holds now
WorkerPlay(w) ==
    /\ speech.pc[w] = "play"
    /\ speech' = [speech EXCEPT !.pc[w] = "wait", !.busy = TRUE,
                                !.started = Append(@, speech.loaded)]
    /\ UNCHANGED Session

\* the audio reaches its end
AudioEnds ==
    /\ speech.busy
    /\ speech' = [speech EXCEPT !.busy = FALSE]
    /\ UNCHANGED Session

\* lines 75-76: the worker leaves its loop when the channel is silent
WorkerWait(w) ==
    /\ speech.pc[w] = "wait"
    /\ ~speech.busy
    /\ speech' = [speech EXCEPT !.pc[w] = "unlink"]
    /\ UNCHANGED Session

\* line 79: os.unlink removes the worker's file, or raises (line 81)
WorkerUnlink(w) ==
    /\ speech.pc[w] = "unlink"
    /\ speech' = [speech EXCEPT !.pc[w] = "emit"]
    /\ UNCHANGED Session

\* line 84
WorkerEmit(w) ==
    /\ speech.pc[w] = "emit"
    /\ speech' = [speech EXCEPT !.pc[w] = "done"]
    /\ UNCHANGED Session

NextSpeech ==
    \/ ToggleVoice
    \/ SpeakText
    \/ AudioEnds
    \/ \E w \in Workers : WorkerSynth(w)
    \/ \E w \in Workers : WorkerLoad(w)
    \/ \E w \in Workers : WorkerPlay(w)
    \/ \E w \in Workers : WorkerWait(w)
    \/ \E w \in Workers : WorkerUnlink(w)
    \/ \E w \in Workers : WorkerEmit(w)

SpecSpeech == Init /\ [][NextSpeech]_vars

----------------------------------------------------------------------------
(* Properties *)

\* a step in which predict ran past the classification: it returned (the
\* counter advanced) or its commit raised
FrameStep == count' = count + 1 \/ op' = "predict_raised"

IsPrefix(a, b) == Len(a) <= Len(b) /\ SubSeq(b, 1, Len(a)) = a

Tokens == Letters \cup {SPACE, NEXT, BACKSPACE}

\* the k-th last symbol predict stored (k = 1 is the latest)
Last(k) == emitted[Len(emitted) + 1 - k]

\* C1: when the history slot (count - 2) mod 10 holds a letter L, a frame
\* whose symbol is NEXT while previous_symbol is not NEXT appends exactly one
\* L to the text and leaves the rest of the text unchanged.
C1_CommitOnNext ==
    [][(/\ FrameStep
        /\ resolved' = NEXT
        /\ prev_char # NEXT
        /\ ten_prev_char[(count - 2) % 10] \in Letters)
       => str' = str \o <<ten_prev_char[(count - 2) % 10]>>]_vars

\* a NEXT frame has just appended the H that was emitted before the two
\* frames preceding it
C1_Witness ==
    /\ op = "predict"
    /\ resolved = NEXT
    /\ Len(emitted) = 4
    /\ Last(4) = "H"
    /\ Last(2) # NEXT
    /\ str = old_str \o <<"H">>

\* C2 as claimed: the symbol a NEXT frame commits is the one emitted two
\* frames before it: frame t emits H, frame t+1 is not NEXT, frame t+2 is
\* NEXT and the text is " " before frame t+2; then the text is " H" after it.
C2_TwoFramesBefore ==
    [][(/\ FrameStep
        /\ resolved' = NEXT
        /\ Len(emitted) >= 2
        /\ Last(2) = "H"
        /\ Last(1) # NEXT
        /\ str = <<" ">>)
       => str' = <<" ", "H">>]_vars

\* C2 as amended: the symbol a NEXT frame commits is the one emitted three
\* frames before it: frame t emits H, frames t+1 and t+2 return, frame t+2
\* is not NEXT, frame t+3 is NEXT and the text is " " before frame t+3; then
\* the text is " H" after it.
C2_ThreeFramesBefore ==
    [][(/\ FrameStep
        /\ resolved' = NEXT
        /\ Len(emitted) >= 3
        /\ Last(3) = "H"
        /\ Last(1) # NEXT
        /\ str = <<" ">>)
       => str' = <<" ", "H">>]_vars

\* H, then two frames that are neither H nor NEXT, then the NEXT frame that
\* turned " " into " H"
C2_Witness ==
    /\ op = "predict"
    /\ Len(emitted) = 4
    /\ Last(4) = "H"
    /\ Last(3) \notin {"H", NEXT}
    /\ Last(2) \notin {"H", NEXT}
    /\ Last(1) = NEXT
    /\ old_str = <<" ">>
    /\ str = <<" ", "H">>

\* C3: when the history slot (count - 2) mod 10 holds BACKSPACE, a NEXT frame
\* with previous_symbol not NEXT removes exactly the last character of the
\* text and appends nothing; an empty text stays empty.
C3_BackspaceViaHistory ==
    [][(/\ FrameStep
        /\ resolved' = NEXT
        /\ prev_char # NEXT
        /\ ten_prev_char[(count - 2) % 10] = BACKSPACE)
       => /\ Len(str) > 0 => /\ Len(str') = Len(str) - 1
                             /\ \A i \in 1..Len(str') : str'[i] = str[i]
          /\ Len(str) = 0 => str' = <<>>]_vars

\* a BACKSPACE commit has just met the empty text (which an earlier
\* BACKSPACE commit produced) and left it empty
C3_Witness ==
    /\ op = "predict"
    /\ resolved = NEXT
    /\ Len(emitted) = 4
    /\ Last(4) = BACKSPACE
    /\ Last(2) # NEXT
    /\ old_str = <<>>
    /\ str = <<>>

\* C4: of two consecutive frames that both resolve to NEXT, the second
\* leaves the text unchanged, whatever the history holds.
C4_DoubleNextGuard ==
    [][(FrameStep /\ resolved' = NEXT /\ resolved = NEXT) => str' = str]_vars

\* the second of two NEXT frames, with a letter in the slot a commit reads
C4_Witness ==
    /\ op = "predict"
    /\ Len(emitted) = 4
    /\ Last(4) = "H"
    /\ Last(2) = NEXT
    /\ Last(1) = NEXT
    /\ resolved = NEXT
    /\ str = old_str

\* C5: a frame that resolves to a letter leaves the text unchanged; hence
\* any number of frames resolving to the same letter, with no NEXT among
\* them, leave the text as it was before the first of them.
C5_LetterFramesNoOp ==
    [][(FrameStep /\ resolved' \in Letters) => str' = str]_vars

\* the same letter three frames running, the text as before the last
C5_Witness ==
    /\ op = "predict"
    /\ Len(emitted) = 4
    /\ Last(3) = "H"
    /\ Last(2) = "H"
    /\ Last(1) = "H"
    /\ str = old_str
    /\ Len(str) >= 2

\* C6 as claimed: a frame that resolves to the resolver's SPACE while
\* previous_symbol is not SPACE appends a double space to the text.
C6_SpaceAppendsDoubleSpace ==
    [][(FrameStep /\ resolved' = SPACE /\ prev_char # SPACE)
       => str' = str \o <<" ", " ">>]_vars

\* C7 as claimed: after clear_sentence the text is empty and previous_symbol,
\* the history and the frame counter hold their initial values.
C7_ClearResetsAll ==
    op = "clear_sentence"
    => /\ str = <<>>
       /\ prev_char = ""
       /\ ten_prev_char = [i \in 0..9 |-> " "]
       /\ count = -1

\* C7 as amended: clear_sentence resets the text to its initial value, the
\* single space, and the four suggestion slots to blank; it leaves
\* previous_symbol, the history and the frame counter unchanged.
C7_ClearResetsText ==
    [][op' = "clear_sentence"
       => /\ str' = <<" ">>
          /\ word1' = Blank /\ word2' = Blank /\ word3' = Blank /\ word4' = Blank
          /\ prev_char' = prev_char
          /\ ten_prev_char' = ten_prev_char
          /\ count' = count]_vars

\* clear_sentence has just run on a longer text, after four frames
C7_Witness ==
    /\ op = "clear_sentence"
    /\ Len(old_str) >= 2
    /\ str = <<" ">>
    /\ count = 3
    /\ prev_char = NEXT
    /\ ten_prev_char[0] = "H"

\* C8 as claimed: every change of the text other than by clear_sentence is an
\* append at the end or a removal of trailing characters.
C8_AppendTruncateOnly ==
    [][op' # "clear_sentence" => IsPrefix(str, str') \/ IsPrefix(str', str)]_vars

\* C8 as amended: every change of the text made by a frame (predict) is an
\* append at the end or a removal of trailing characters; use_suggestion,
\* like clear_sentence, may rewrite earlier characters.
C8_FramesAppendTruncateOnly ==
    [][FrameStep => IsPrefix(str, str') \/ IsPrefix(str', str)]_vars

\* a frame has just appended a letter to a text of more than one character
C8_Witness ==
    /\ op = "predict"
    /\ resolved = NEXT
    /\ Len(old_str) >= 2
    /\ str = old_str \o <<"H">>

\* C9 as claimed: every symbol predict emits and every symbol in the history
\* is one of the 26 letters or SPACE, NEXT, BACKSPACE.
C9_SymbolDomain ==
    /\ \A i \in 1..Len(emitted) : emitted[i] \in Tokens
    /\ \A i \in 0..9 : ten_prev_char[i] \in Tokens

\* C10 as claimed: every frame that reaches the assembler sets
\* previous_symbol to its symbol, advances the counter by one and writes the
\* symbol at slot (new count) mod 10, leaving the other slots unchanged.
C10_HistoryUpdate ==
    [][FrameStep
       => /\ prev_char' = resolved'
          /\ count' = count + 1
          /\ ten_prev_char' =
                 [ten_prev_char EXCEPT ![(count + 1) % 10] = resolved']]_vars

\* the steps of update_frame, however they end
FrameOps ==
    {"frame_skipped", "model_raised", "predict", "predict_raised",
     "predict_failed"}

Positive(prob) == {i \in DOMAIN prob : prob[i] > 0}

\* C12 as claimed: for every length-8 vector of non-negative values the three
\* peeled indices are pairwise distinct and lie in 0..7.
C12_PeelDistinct ==
    fn_out # <<>>
    => /\ \A i \in 1..3 : fn_out[i] \in 0..7
       /\ fn_out[1] # fn_out[2]
       /\ fn_out[1] # fn_out[3]
       /\ fn_out[2] # fn_out[3]

\* C12 as amended: the three peeled indices lie in 0..7; they are pairwise
\* distinct when at least three entries are positive and ch1 differs from ch2
\* when at least two are; a peel step that meets an all-zero vector returns
\* index 0, so with fewer positive entries an index can repeat.
C12_PeelDistinctWhenPositive ==
    fn_out # <<>>
    => LET n == Cardinality(Positive(fn_in))
       IN  /\ \A i \in 1..3 : fn_out[i] \in 0..7
           /\ n >= 3 => /\ fn_out[1] # fn_out[2]
                        /\ fn_out[1] # fn_out[3]
                        /\ fn_out[2] # fn_out[3]
           /\ n >= 2 => fn_out[1] # fn_out[2]
           /\ n <= 2 => fn_out[3] = 0
           /\ n <= 1 => fn_out[2] = 0
           /\ n = 0 => fn_out[1] = 0

\* a vector with exactly three positive entries, two of them tied, peeled to
\* three distinct indices
C12_Witness ==
    /\ Positive(fn_in) = {2, 5, 7}
    /\ fn_in[2] = fn_in[5]
    /\ fn_in[7] < fn_in[2]
    /\ fn_out = <<2, 5, 7>>

\* i is the smallest index attaining the maximum of p
IsFirstMax(p, i) ==
    /\ \A j \in DOMAIN p : p[j] <= p[i]
    /\ \A j \in DOMAIN p : j < i => p[j] < p[i]

\* C13: at each of the three peel steps the chosen index is the smallest
\* index attaining the maximum of the current, partly zeroed vector.
C13_PeelSmallestIndex ==
    fn_out # <<>>
    => LET p1 == [fn_in EXCEPT ![fn_out[1]] = 0]
           p2 == [p1 EXCEPT ![fn_out[2]] = 0]
       IN  /\ IsFirstMax(fn_in, fn_out[1])
           /\ IsFirstMax(p1, fn_out[2])
           /\ IsFirstMax(p2, fn_out[3])

\* the maximum is attained at indices 1, 4 and 6: they are peeled in that
\* order
C13_Witness ==
    /\ fn_in[1] = MaxProb
    /\ fn_in[4] = MaxProb
    /\ fn_in[6] = MaxProb
    /\ fn_in[0] < MaxProb
    /\ fn_out = <<1, 4, 6>>

\* rule k fires on the pair pl: pl is in its trigger set and the landmarks
\* satisfy its predicate
Fires(k, pl, pts) == RuleAt(k, pl, -1, pts) # -1

\* the group rule k assigns when it fires on pl
Target(k, pl, pts) == RuleAt(k, pl, -1, pts)

\* rule k fired in the run that produced trace from (c1, c2)
Fired(k, trace, c1, c2, pts) ==
    Fires(k, EnteringPair(k, c1, c2, IF k = 1 THEN c1 ELSE trace[k - 1]), pts)

\* C14 as claimed: when the landmarks satisfy the predicates of rules r1 < r2,
\* the initial (ch1, ch2) is in r1's trigger set, (r1's group, ch2) is in
\* r2's trigger set and no rule between them fires, ch1 after r2 is r2's
\* group.
C14_LaterRuleWins ==
    fn_out # <<>>
    => LET c1 == fn_in.c1
           c2 == fn_in.c2
           pts == Hand(fn_in.wrist, fn_in.thumb, fn_in.up)
           fired == {k \in 1..NumRules : Fired(k, fn_out, c1, c2, pts)}
           first == {k \in 1..NumRules : Fires(k, <<c1, c2>>, pts)}
       IN  \A r1 \in first :
               \A r2 \in (r1 + 1)..NumRules :
                   (/\ Fires(r2, <<Target(r1, <<c1, c2>>, pts), c2>>, pts)
                    /\ fired \cap ((r1 + 1)..(r2 - 1)) = {})
                   => fn_out[r2] = Target(r2, <<Target(r1, <<c1, c2>>, pts), c2>>, pts)

\* C14 as amended: when moreover no rule before r1 fires, ch1 after r2 is
\* r2's group.  (A rule that fires before r1 changes ch1, so that r1 and r2
\* test other pairs and need not fire.)
C14_LaterRuleWinsAfterFirst ==
    fn_out # <<>>
    => LET c1 == fn_in.c1
           c2 == fn_in.c2
           pts == Hand(fn_in.wrist, fn_in.thumb, fn_in.up)
           fired == {k \in 1..NumRules : Fired(k, fn_out, c1, c2, pts)}
           first == {k \in 1..NumRules : Fires(k, <<c1, c2>>, pts)}
       IN  \A r1 \in first :
               \A r2 \in (r1 + 1)..NumRules :
                   (/\ Fires(r2, <<Target(r1, <<c1, c2>>, pts), c2>>, pts)
                    /\ fired \cap (1..(r1 - 1)) = {}
                    /\ fired \cap ((r1 + 1)..(r2 - 1)) = {})
                   => fn_out[r2] = Target(r2, <<Target(r1, <<c1, c2>>, pts), c2>>, pts)

\* group prediction (5, 2) on a fist with the wrist to the right of the
\* finger tips and the thumb: rule 1 turns ch1 into 0, rule 3 turns that 0
\* into 2, and no other rule fires before rule 3
C14_Witness ==
    /\ fn_out # <<>>
    /\ fn_in.c1 = 5
    /\ fn_in.c2 = 2
    /\ fn_out[1] = 0
    /\ fn_out[2] = 0
    /\ fn_out[3] = 2

\* the four assembler variables are as they were
AssemblerUnchanged ==
    /\ str' = str
    /\ prev_char' = prev_char
    /\ ten_prev_char' = ten_prev_char
    /\ count' = count

\* C15: a frame whose landmark list has fewer than 21 points never reaches
\* classification and leaves the text, previous_symbol, the history and the
\* counter unchanged.
C15_TooFewLandmarks ==
    [][(op' \in FrameOps /\ last_in'.hands /\ last_in'.npts < MinLandmarks)
       => /\ op' = "frame_skipped"
          /\ resolved' = resolved
          /\ seen' = seen
          /\ AssemblerUnchanged]_vars

\* a frame with 20 landmarks has just been skipped, after four frames that
\* built the text " H"
C15_Witness ==
    /\ op = "frame_skipped"
    /\ last_in = FewPoints
    /\ model_loaded
    /\ count = 3
    /\ str = <<" ", "H">>

C17_FrameAtomicity ==
    [][op' \in {"model_raised", "predict_raised", "predict_failed"}
       => /\ \/ AssemblerUnchanged
             \/ /\ str' = AppendSpace(Commit(str, resolved', prev_char,
                                             ten_prev_char, count),
                                      resolved', prev_char)
                /\ prev_char' = resolved'
                /\ count' = count + 1
                /\ ten_prev_char' =
                       [ten_prev_char EXCEPT ![(count + 1) % 10] = resolved']
          /\ model_loaded' = model_loaded]_vars

\* the commit of a NEXT frame raised on the integer 1 and a later NEXT frame
\* committed an H
C17_Witness ==
    /\ failed = "commit"
    /\ op = "predict"
    /\ resolved = NEXT
    /\ str = old_str \o <<"H">>

\* C18 as claimed, its last clause: after every processed frame the four
\* suggestion slots are blank whenever the trailing word fragment of the text
\* is empty.
C18_SlotsFollowFragment ==
    (op = "predict" /\ TrailingWord(str) = <<>>)
    => /\ word1 = Blank
       /\ word2 = Blank
       /\ word3 = Blank
       /\ word4 = Blank

\* C19 as claimed: in the frame sequence NEXT, x, NEXT with x not NEXT the
\* second NEXT frame performs no commit, as if NEXT had been recognised on
\* all three frames.  (Stated for sequences that start after the first
\* frame of the session, so that the slot a commit reads was written by a
\* frame.)
C19_NextFlickerTolerated ==
    [][(/\ FrameStep
        /\ resolved' = NEXT
        /\ op = "predict"
        /\ count >= 2
        /\ Last(2) = NEXT
        /\ Last(1) # NEXT)
       => str' = str]_vars

\* C20 as claimed: a NEXT frame that arrives with previous_symbol not NEXT
\* while the history slot (count - 2) mod 10 holds NEXT appends the symbol at
\* slot (count - 0) mod 10, except that it leaves the text unchanged when
\* that slot holds BACKSPACE.
C20_NextInHistory ==
    [][(/\ FrameStep
        /\ resolved' = NEXT
        /\ prev_char # NEXT
        /\ ten_prev_char[(count - 2) % 10] = NEXT)
       => str' = IF ten_prev_char[(count - 0) % 10] = BACKSPACE
                 THEN str
                 ELSE str \o Chars(ten_prev_char[(count - 0) % 10])]_vars

\* the reference refiner: ch1 after each of the first k rules when every rule
\* recomputes the pair from the current ch1 before its trigger test
RECURSIVE RefineFresh(_, _, _, _)
RefineFresh(k, c1, c2, pts) ==
    IF k = 0 THEN <<>>
    ELSE LET t == RefineFresh(k - 1, c1, c2, pts)
             before == IF k = 1 THEN c1 ELSE t[k - 1]
         IN  Append(t, RuleAt(k, <<before, c2>>, before, pts))

\* C21: the code's rule sequence, whose second rule reuses the pair computed
\* before the first rule, yields after every rule, and so at the end, the
\* same group as the reference sequence that recomputes the pair before each
\* rule.
C21_StalePairHarmless ==
    fn_out # <<>>
    => fn_out = RefineFresh(NumRules, fn_in.c1, fn_in.c2,
                            Hand(fn_in.wrist, fn_in.thumb, fn_in.up))

\* the first rule has overwritten ch1 on a hand that satisfies the second
\* rule's predicate, so that the second rule tests a pair that is no longer
\* current
C21_Witness ==
    /\ fn_out # <<>>
    /\ fn_in.c1 # 0
    /\ fn_out[1] = 0
    /\ Fires(2, <<2, 2>>, Hand(fn_in.wrist, fn_in.thumb, fn_in.up))
    /\ fn_out[2] = 0

\* the function under study has been applied to fn_in
Applied == fn_out # <<>>

\* the landmarks the resolver and the overrides saw
Landmarks == SpreadHand(fn_in)

\* the wrist is right of the four fingertips and the thumb tip is above the
\* four fingertips and the four middle joints
ThumbAboveAll(pts) ==
    /\ \A i \in {8, 12, 16, 20} : pts[0][1] > pts[i][1]
    /\ \A i \in {8, 12, 16, 20, 6, 10, 14, 18} : pts[4][2] < pts[i][2]

\* C22: whenever the thumb-above-all-fingertips predicate holds on the frame's
\* landmarks, the frame's final symbol is BACKSPACE, whatever the resolver and
\* the two earlier overrides produced.
C22_BackspaceForEverySymbol ==
    (Applied /\ ThumbAboveAll(Landmarks)) => fn_out.symbol = BACKSPACE

\* the NEXT override had produced NEXT, a symbol outside the list of line
\* 803, and the frame's symbol is BACKSPACE all the same
C22_Witness ==
    /\ Applied
    /\ ThumbAboveAll(Landmarks)
    /\ fn_out.nexted = NEXT
    /\ fn_out.symbol = BACKSPACE

\* index extended, middle curled, ring curled, pinky extended
SpacePattern(pts) ==
    /\ pts[6][2] > pts[8][2] /\ pts[10][2] < pts[12][2]
    /\ pts[14][2] < pts[16][2] /\ pts[18][2] > pts[20][2]

\* C23 as stated: for every landmark frame, a refined group of 4 yields the
\* frame symbol L and a refined group of 6 yields the frame symbol X.
C23_UnconditionalGroups ==
    Applied => /\ fn_out.group = 4 => fn_out.symbol = "L"
               /\ fn_out.group = 6 => fn_out.symbol = "X"

\* C23 amended: a refined group of 4 resolves to L and a refined group of 6
\* to X on every landmark frame; the frame symbol is then BACKSPACE when the
\* thumb-above-all-fingertips predicate holds, otherwise SPACE when the group
\* is 6 and the space pattern holds, and otherwise the resolved L or X.
C23_UnconditionalBeforeOverrides ==
    (Applied /\ fn_out.group \in {4, 6})
    => LET letter == IF fn_out.group = 4 THEN "L" ELSE "X"
       IN  /\ fn_out.resolved = letter
           /\ fn_out.symbol =
                  IF ThumbAboveAll(Landmarks) THEN BACKSPACE
                  ELSE IF fn_out.group = 6 /\ SpacePattern(Landmarks) THEN SPACE
                  ELSE letter

\* a frame of refined group 6 that resolved to X and whose symbol is SPACE
C23_Witness ==
    /\ Applied
    /\ fn_out.group = 6
    /\ fn_out.resolved = "X"
    /\ SpacePattern(Landmarks)
    /\ fn_out.symbol = SPACE

\* C24: the SPACE override turns the resolved symbol into SPACE exactly when
\* the symbol is one of 1, E, S, X, Y, B and the space pattern holds on the
\* landmarks, and leaves it alone otherwise; a resolved letter outside that
\* set is never turned into SPACE.
C24_SpaceOverride ==
    Applied
    => /\ fn_out.spaced = SPACE
          <=> /\ fn_out.resolved \in {IntOne, "E", "S", "X", "Y", "B"}
              /\ SpacePattern(Landmarks)
       /\ fn_out.spaced # SPACE => fn_out.spaced = fn_out.resolved

\* the resolver left the integer 1 on a hand showing the space pattern, and
\* the override made it SPACE
C24_Witness ==
    /\ Applied
    /\ fn_out.resolved = IntOne
    /\ SpacePattern(Landmarks)
    /\ fn_out.spaced = SPACE

\* the thumb tip is left of the index base and the four fingers are extended
NextPattern(pts) ==
    /\ pts[4][1] < pts[5][1]
    /\ pts[6][2] > pts[8][2] /\ pts[10][2] > pts[12][2]
    /\ pts[14][2] > pts[16][2] /\ pts[18][2] > pts[20][2]

\* C25: a frame's symbol is NEXT, after the NEXT override and at the end, only
\* if the resolved symbol before the overrides was E, Y or B, the thumb tip x
\* is smaller than the index base x and all four fingers are extended; no
\* other resolved letter and no SPACE result of the first override becomes
\* NEXT.
C25_NextOverride ==
    Applied
    => /\ (fn_out.nexted = NEXT \/ fn_out.symbol = NEXT)
          => /\ fn_out.resolved \in {"E", "Y", "B"}
             /\ NextPattern(Landmarks)
       /\ fn_out.spaced = SPACE => fn_out.nexted = SPACE

\* a frame that resolved to B and whose symbol is NEXT
C25_Witness ==
    /\ Applied
    /\ fn_out.resolved = "B"
    /\ NextPattern(Landmarks)
    /\ fn_out.symbol = NEXT

\* the five landmark predicates of group 0, by the letter they select
Holds0(letter, pts) ==
    LET x4 == pts[4][1]
        y4 == pts[4][2]
    IN  CASE letter = "A" -> /\ x4 < pts[6][1] /\ x4 < pts[10][1]
                             /\ x4 < pts[14][1] /\ x4 < pts[18][1]
          [] letter = "T" -> /\ x4 > pts[6][1] /\ x4 < pts[10][1]
                             /\ x4 < pts[14][1] /\ x4 < pts[18][1]
                             /\ y4 < pts[14][2] /\ y4 < pts[18][2]
          [] letter = "E" -> /\ y4 > pts[8][2] /\ y4 > pts[12][2]
                             /\ y4 > pts[16][2] /\ y4 > pts[20][2]
          [] letter = "M" -> /\ x4 > pts[6][1] /\ x4 > pts[10][1]
                             /\ x4 > pts[14][1] /\ y4 < pts[18][2]
          [] letter = "N" -> /\ x4 > pts[6][1] /\ x4 > pts[10][1]
                             /\ y4 < pts[18][2] /\ y4 < pts[14][2]

\* the letters of group 0 in the order of their tests
Order0 == <<"A", "T", "E", "M", "N">>

\* C26: for refined group 0 the resolved letter, before the overrides, is the
\* letter of the last predicate in the order A, T, E, M, N that holds on the
\* landmarks, and S when none holds.
C26_Group0LaterWins ==
    (Applied /\ fn_out.group = 0)
    => LET holding == {i \in 1..5 : Holds0(Order0[i], Landmarks)}
       IN  IF holding = {} THEN fn_out.resolved = "S"
           ELSE \E i \in holding :
                    /\ \A j \in holding : j <= i
                    /\ fn_out.resolved = Order0[i]

\* a hand of group 0 on which the E, M and N predicates all hold, resolved
\* to N
C26_Witness ==
    /\ Applied
    /\ fn_out.group = 0
    /\ Holds0("E", Landmarks) /\ Holds0("M", Landmarks) /\ Holds0("N", Landmarks)
    /\ fn_out.resolved = "N"

\* the squared distance in pixels between landmarks i and j
Squared(pts, i, j) ==
    (pts[i][1] - pts[j][1]) * (pts[i][1] - pts[j][1])
    + (pts[i][2] - pts[j][2]) * (pts[i][2] - pts[j][2])

\* C27: with integer pixel landmarks, refined group 2 resolves to C iff the
\* squared distance between landmarks 12 and 4 exceeds 42^2 and to O
\* otherwise; group 3 to G iff the squared distance between landmarks 8 and 12
\* exceeds 72^2 and to H otherwise; group 7 to Y iff the squared distance
\* between landmarks 8 and 4 exceeds 42^2 and to J otherwise.
C27_DistanceGroups ==
    Applied
    => /\ fn_out.group = 2
          => fn_out.resolved =
                 IF Squared(Landmarks, 12, 4) > 42 * 42 THEN "C" ELSE "O"
       /\ fn_out.group = 3
          => fn_out.resolved =
                 IF Squared(Landmarks, 8, 12) > 72 * 72 THEN "G" ELSE "H"
       /\ fn_out.group = 7
          => fn_out.resolved =
                 IF Squared(Landmarks, 8, 4) > 42 * 42 THEN "Y" ELSE "J"

\* a hand of group 3 whose index and middle fingertips are exactly 72 pixels
\* apart, resolved to H
C27_Witness ==
    /\ Applied
    /\ fn_out.group = 3
    /\ Squared(Landmarks, 8, 12) = 72 * 72
    /\ fn_out.resolved = "H"

\* C28: processing one frame changes the text in exactly one of three ways:
\* it is unchanged, exactly one character is appended to it, or exactly its
\* last character is removed; a frame never changes the text by two or more
\* characters.
C28_BoundedFrameEdit ==
    [][FrameStep
       => \/ str' = str
          \/ Len(str') = Len(str) + 1 /\ IsPrefix(str, str')
          \/ Len(str) > 0 /\ Len(str') = Len(str) - 1 /\ IsPrefix(str', str)]_vars

\* a NEXT frame has just removed the last character of a text of two
\* characters
C28_Witness ==
    /\ op = "predict"
    /\ resolved = NEXT
    /\ Len(old_str) = 2
    /\ Len(str) = 1
    /\ IsPrefix(str, old_str)

\* C29: a NEXT frame that arrives when fewer than three frames have been
\* processed in the session, and whose predecessor is not NEXT, appends a
\* single space to the text: the slot it reads still holds a filler of the
\* initial history.
C29_StartupCommit ==
    [][(/\ FrameStep
        /\ resolved' = NEXT
        /\ prev_char # NEXT
        /\ count + 1 < 3)
       => str' = str \o <<" ">>]_vars

\* the third frame of the session is NEXT after two H frames, and the text
\* has grown by one space, not by an H
C29_Witness ==
    /\ op = "predict"
    /\ resolved = NEXT
    /\ count = 2
    /\ Len(emitted) = 3
    /\ Last(3) = "H"
    /\ Last(2) = "H"
    /\ str = old_str \o <<" ">>

\* C30 as claimed: when speak_text is called while a previously started
\* worker is still running, the earlier worker's audio never starts playing
\* after the later worker's audio has started: the audio files begin to play
\* in the order in which their texts were requested.
C30_SpeechOrdered ==
    \A i, j \in DOMAIN speech.started :
        i < j => speech.started[i] <= speech.started[j]

====
